---- MODULE Spec2Model ----
(***************************************************************************)
(* Model of the browser tool layer of src/index.js: the module-level       *)
(* browser and page handles, the seven tools (open_browser, open_url,      *)
(* take_screenshot, find_elements, click_element, fill_form_fields,        *)
(* close_browser) and the signal handlers.  The automation driver          *)
(* (Playwright) is the environment: each of its calls either resolves or   *)
(* rejects, and a call on a page that is no longer open always rejects.    *)
(***************************************************************************)
EXTENDS Integers, Sequences, FiniteSets, TLC

(* ------------------------------ bounds --------------------------------- *)

\* browsers the driver can launch in one run (caps the fresh-handle counter)
MaxBrowsers == 2
\* elements of a page, and search terms of a find_elements call
MaxElems == 2
MaxTerms == 2
\* fields given a value in a fill_form_fields call
MaxGiven == 2

(* --------------------------- JavaScript values -------------------------- *)

Undefined == [t |-> "undefined"]
JsNull == [t |-> "null"]
Str(s) == [t |-> "string", v |-> s]      \* s: a sequence of characters
Num(n) == [t |-> "number", v |-> n]
Obj(i) == [t |-> "object", id |-> i]     \* a driver handle (browser or page)

\* !v
Falsy(v) ==
  \/ v.t \in {"undefined", "null"}
  \/ v.t = "string" /\ v.v = <<>>
  \/ v.t = "number" /\ v.v = 0

\* v == null
Nullish(v) == v.t \in {"undefined", "null"}

(* ------------------------------ results -------------------------------- *)

\* what a tool call gives back to the planner: a returned value or a thrown
\* Error whose message is the concatenation of the pieces of msg
Return(msg) == [kind |-> "return", msg |-> msg]
Throw(msg) == [kind |-> "throw", msg |-> msg]

\* the pieces of a template string: literal text and interpolated values
Lit(s) == [lit |-> s]
Val(v) == [val |-> v]

NotInitializedMsg == <<Lit("Browser not initialized. Call open_browser first.")>>
NotInitialized == Throw(NotInitializedMsg)

\* the message of an Error the driver rejected with
DriverError == Lit("driver error")

\* one call of the driver on the page: what was called, with what, and whether
\* it resolved
Op(name, arg, ok) == [op |-> name, arg |-> arg, ok |-> ok]

Idle == [tool |-> "none"]

Call(tool, args, preBrowser, prePage, result, ops, out) ==
  [tool |-> tool, args |-> args, preBrowser |-> preBrowser, prePage |-> prePage,
   result |-> result, ops |-> ops, out |-> out]

(* ------------------------------- state --------------------------------- *)

VARIABLES
  browser,       \* let browser
  page,          \* let page
  launched,      \* number of browsers the driver has launched so far
  liveBrowsers,  \* browsers launched and not closed
  livePages,     \* pages created and still open (a page is named by its browser)
  exited,        \* process.exit was called
  last           \* the tool call whose result the planner has not yet consumed

vars == <<browser, page, launched, liveBrowsers, livePages, exited, last>>

session == <<browser, page, launched, liveBrowsers, livePages, exited>>

Init ==
  /\ browser = Undefined
  /\ page = Undefined
  /\ launched = 0
  /\ liveBrowsers = {}
  /\ livePages = {}
  /\ exited = FALSE
  /\ last = Idle

\* the planner may call a tool: the process runs and the previous call is over
Ready == ~exited /\ last = Idle

\* the page handle p refers to a page that is still open
PageAlive(p, pages) == p.t = "object" /\ p.id \in pages

(* ---------------------------- open_browser ----------------------------- *)

OpenOutcomes == {"launch rejects", "newPage rejects", "setViewportSize rejects", "ok"}

\* the handles and the driver's browsers after execute() of open_browser
openBrowser(b, p, n, outcome) ==
  LET id == n + 1 IN
  CASE outcome = "launch rejects" ->
         [browser |-> b, page |-> p, launched |-> n, newBrowsers |-> {}, newPages |-> {},
          result |-> Throw(<<Lit("Failed to open browser: "), DriverError>>)]
    [] outcome = "newPage rejects" ->
         [browser |-> Obj(id), page |-> p, launched |-> id, newBrowsers |-> {id},
          newPages |-> {},
          result |-> Throw(<<Lit("Failed to open browser: "), DriverError>>)]
    [] outcome = "setViewportSize rejects" ->
         \* the page was created and assigned, and closed before the viewport was set
         [browser |-> Obj(id), page |-> Obj(id), launched |-> id, newBrowsers |-> {id},
          newPages |-> {},
          result |-> Throw(<<Lit("Failed to open browser: "), DriverError>>)]
    [] outcome = "ok" ->
         [browser |-> Obj(id), page |-> Obj(id), launched |-> id, newBrowsers |-> {id},
          newPages |-> {id},
          result |-> Return(<<Lit("Browser opened")>>)]

OpenBrowser ==
  /\ Ready
  /\ \E outcome \in OpenOutcomes :
       /\ outcome # "launch rejects" => launched < MaxBrowsers
       /\ LET r == openBrowser(browser, page, launched, outcome) IN
          /\ browser' = r.browser
          /\ page' = r.page
          /\ launched' = r.launched
          /\ liveBrowsers' = liveBrowsers \cup r.newBrowsers
          /\ livePages' = livePages \cup r.newPages
          /\ last' = Call("open_browser", outcome, browser, page, r.result, <<>>, <<>>)
  /\ UNCHANGED exited

(* ------------------------------ open_url ------------------------------- *)

NavTimeoutMs == 30000
NavSettleMs == 1500

\* execute() of open_url; gotoOk: the navigation itself succeeds on an open page
openURL(p, alive, url, gotoOk, title) ==
  IF Falsy(p) THEN [result |-> NotInitialized, ops |-> <<>>]
  ELSE LET failed == Throw(<<Lit("Failed to navigate to "), Val(url), Lit(": "), DriverError>>)
           goto == Op("goto", <<url, NavTimeoutMs>>, alive /\ gotoOk)
           wait == Op("waitForTimeout", NavSettleMs, alive)
           ttl == Op("title", <<>>, alive)
       IN IF ~goto.ok THEN [result |-> failed, ops |-> <<goto>>]
          ELSE [result |-> Return(<<Lit("Opened URL. Title: "), Val(title)>>),
                ops |-> <<goto, wait, ttl>>]

\* the site of the example run (src/index.js:280) and its title
Urls == {Str(<<"u", "i", ".", "c", "h", "a", "i", "c", "o", "d", "e", ".", "c", "o", "m">>)}
Titles == {Str(<<"C", "h", "a", "i">>)}

OpenURL ==
  /\ Ready
  /\ \E url \in Urls, gotoOk \in BOOLEAN, title \in Titles :
       LET r == openURL(page, PageAlive(page, livePages), url, gotoOk, title) IN
       last' = Call("open_url", [url |-> url], browser, page, r.result, r.ops, <<>>)
  /\ UNCHANGED session

(* --------------------------- take_screenshot --------------------------- *)

Letters ==
  {"a", "b", "c", "d", "e", "f", "g", "h", "i", "j", "k", "l", "m", "n", "o", "p", "q",
   "r", "s", "t", "u", "v", "w", "x", "y", "z",
   "A", "B", "C", "D", "E", "F", "G", "H", "I", "J", "K", "L", "M", "N", "O", "P", "Q",
   "R", "S", "T", "U", "V", "W", "X", "Y", "Z"}
Digits == {"0", "1", "2", "3", "4", "5", "6", "7", "8", "9"}

\* \w
WordChar(c) == c \in Letters \cup Digits \cup {"_"}

\* s.replace(/\W+/g, '_'): every maximal run of non-word characters becomes one '_'
RECURSIVE ReplaceNonWord(_)
ReplaceNonWord(s) ==
  IF s = <<>> THEN <<>>
  ELSE IF WordChar(Head(s)) THEN <<Head(s)>> \o ReplaceNonWord(Tail(s))
  ELSE IF Len(s) > 1 /\ ~WordChar(s[2]) THEN ReplaceNonWord(Tail(s))
  ELSE <<"_">> \o ReplaceNonWord(Tail(s))

\* the file name of a screenshot taken at time now
ShotName(label, now) ==
  LET suffix == IF ~Falsy(label) THEN ReplaceNonWord(label.v) ELSE <<>> IN
  <<Lit("shot-"), Val(Num(now))>>
    \o (IF suffix # <<>> THEN <<Lit("-"), Val(Str(suffix))>> ELSE <<>>)
    \o <<Lit(".png")>>

ShotOutcomes == {"mkdir throws", "screenshot rejects", "ok"}

\* execute() of take_screenshot
takeScreenshot(p, alive, label, now, outcome) ==
  IF Falsy(p) THEN [result |-> NotInitialized, ops |-> <<>>]
  ELSE LET failed == Throw(<<Lit("Failed to take screenshot: "), DriverError>>)
           fname == ShotName(label, now)
           shot == Op("screenshot", fname, alive /\ outcome = "ok")
       IN IF outcome = "mkdir throws" THEN [result |-> failed, ops |-> <<>>]
          ELSE IF ~shot.ok THEN [result |-> failed, ops |-> <<shot>>]
          ELSE [result |-> Return(<<Lit("Screenshot saved: ")>> \o fname), ops |-> <<shot>>]

\* the label of the example run (src/index.js:282), one with a run of non-word
\* characters, the empty label and no label
Labels ==
  {JsNull, Str(<<>>), Str(<<"s", "i", "g", "n", "u", "p">>),
   Str(<<"a", " ", "-", "b", "!">>)}
Clock == {17}

TakeScreenshot ==
  /\ Ready
  /\ \E label \in Labels, now \in Clock, outcome \in ShotOutcomes :
       LET r == takeScreenshot(page, PageAlive(page, livePages), label, now, outcome) IN
       last' = Call("take_screenshot", [label |-> label], browser, page, r.result, r.ops, <<>>)
  /\ UNCHANGED session

(* ---------------------------- find_elements ---------------------------- *)

\* elements.slice(0, 6)
MaxResults == 6
\* text.slice(0, 80), className.slice(0, 80)
MaxText == 80

UpperCase ==
  <<"A", "B", "C", "D", "E", "F", "G", "H", "I", "J", "K", "L", "M", "N", "O", "P", "Q",
    "R", "S", "T", "U", "V", "W", "X", "Y", "Z">>
LowerCase ==
  <<"a", "b", "c", "d", "e", "f", "g", "h", "i", "j", "k", "l", "m", "n", "o", "p", "q",
    "r", "s", "t", "u", "v", "w", "x", "y", "z">>

\* the lower-case letter of every upper-case letter
LowerOf ==
  [c \in {UpperCase[j] : j \in 1 .. Len(UpperCase)} |->
     LowerCase[CHOOSE j \in 1 .. Len(UpperCase) : UpperCase[j] = c]]

\* s.toLowerCase()
ToLowerCase(s) ==
  [i \in 1 .. Len(s) |-> IF s[i] \in DOMAIN LowerOf THEN LowerOf[s[i]] ELSE s[i]]

\* s.includes(t)
Includes(s, t) ==
  \E i \in 0 .. (Len(s) - Len(t)) : SubSeq(s, i + 1, i + Len(t)) = t

WhiteSpace == {" ", "\t", "\n"}

\* s.trim()
RECURSIVE TrimStart(_)
TrimStart(s) == IF s # <<>> /\ Head(s) \in WhiteSpace THEN TrimStart(Tail(s)) ELSE s
RECURSIVE TrimEnd(_)
TrimEnd(s) ==
  IF s # <<>> /\ s[Len(s)] \in WhiteSpace THEN TrimEnd(SubSeq(s, 1, Len(s) - 1)) ELSE s
Trim(s) == TrimEnd(TrimStart(s))

\* s.slice(0, n)
Slice(s, n) == SubSeq(s, 1, IF Len(s) < n THEN Len(s) ELSE n)

\* el.className of an element with the class tokens cls
RECURSIVE ClassName(_)
ClassName(cls) ==
  IF cls = <<>> THEN <<>>
  ELSE IF Len(cls) = 1 THEN cls[1]
  ELSE (cls[1] \o <<" ">>) \o ClassName(Tail(cls))

HasClass(el, c) == \E i \in 1 .. Len(el.classes) : el.classes[i] = c

\* const selectors = [...]
selectors ==
  <<"a", "button", "[role=\"button\"]", "input[type=\"button\"]", "input[type=\"submit\"]",
    ".btn", ".button", "[onclick]">>

\* el is among document.querySelectorAll(selectors[k])
Selects(k, el) ==
  CASE k = 1 -> el.tag = "a"
    [] k = 2 -> el.tag = "button"
    [] k = 3 -> el.role = "button"
    [] k = 4 -> el.tag = "input" /\ el.type = "button"
    [] k = 5 -> el.tag = "input" /\ el.type = "submit"
    [] k = 6 -> HasClass(el, <<"b", "t", "n">>)
    [] k = 7 -> HasClass(el, <<"b", "u", "t", "t", "o", "n">>)
    [] k = 8 -> el.onclick

\* (el.textContent || el.innerText || '').trim(); the innerText of an element
\* whose textContent is empty is empty
Text(el) == Trim(el.textContent)

\* rect.width > 0 || rect.height > 0
VisibleEither(el) == el.width > 0 \/ el.height > 0

\* rect.width > 0 && rect.height > 0
Visible(el) == el.width > 0 /\ el.height > 0

\* the callback of terms.filter: does term t match el
TermMatches(el, t) ==
  LET lt == ToLowerCase(t) IN
  \/ Includes(ToLowerCase(Text(el)), lt)
  \/ ClassName(el.classes) # <<>> /\ Includes(ToLowerCase(ClassName(el.classes)), lt)
  \/ el.id # <<>> /\ Includes(ToLowerCase(el.id), lt)

\* const matches = terms.filter(...): the positions of terms kept
Matches(el, terms) == {i \in 1 .. Len(terms) : TermMatches(el, terms[i])}

\* Math.round(a + b / 2) for integers a and b
RoundHalf(a, b) == (2 * a + b + 1) \div 2

\* the object pushed for el, the node-th element of the document (node is not
\* a property of the object: it records which element the object describes)
Candidate(el, node, terms) ==
  [text |-> Slice(Text(el), MaxText),
   tag |-> el.tag,
   id |-> IF el.id # <<>> THEN Str(el.id) ELSE JsNull,
   className |-> Slice(ClassName(el.classes), MaxText),
   confidence |-> Cardinality(Matches(el, terms)),
   center |-> [x |-> RoundHalf(el.left, el.width), y |-> RoundHalf(el.top, el.height)],
   node |-> node]

\* document.querySelectorAll(selectors[k]).forEach(...): the objects pushed for
\* selector k, from element n of the document on
RECURSIVE ScanSelector(_, _, _, _)
ScanSelector(k, n, dom, terms) ==
  IF n > Len(dom) THEN <<>>
  ELSE LET el == dom[n]
           push == Selects(k, el) /\ Visible(el) /\ Matches(el, terms) # {}
       IN (IF push THEN <<Candidate(el, n, terms)>> ELSE <<>>)
            \o ScanSelector(k, n + 1, dom, terms)

\* selectors.forEach(...): out, from selector k on
RECURSIVE Scan(_, _, _)
Scan(k, dom, terms) ==
  IF k > Len(selectors) THEN <<>>
  ELSE ScanSelector(k, 1, dom, terms) \o Scan(k + 1, dom, terms)

\* the comparator without its second line
CompareConfidenceOnly(a, b) ==
  IF a.confidence # b.confidence THEN b.confidence - a.confidence ELSE 0

\* the comparator of out.sort: negative when a sorts before b
Compare(a, b) ==
  IF a.confidence # b.confidence THEN b.confidence - a.confidence
  ELSE Len(b.text) - Len(a.text)

\* c put into the sorted list s after every entry it does not sort before
RECURSIVE Insert(_, _)
Insert(c, s) ==
  IF s = <<>> THEN <<c>>
  ELSE IF Compare(c, Head(s)) < 0 THEN <<c>> \o s
  ELSE <<Head(s)>> \o Insert(c, Tail(s))

\* out.sort(...): Array.prototype.sort is stable
RECURSIVE Sort(_)
Sort(out) ==
  IF out = <<>> THEN <<>>
  ELSE Insert(out[Len(out)], Sort(SubSeq(out, 1, Len(out) - 1)))

\* page.evaluate(...)
Elements(dom, terms) == Sort(Scan(1, dom, terms))

\* find_elements returning elements itself
TrimmedUncapped(elements) == elements

\* elements.slice(0, 6)
Trimmed(elements) == Slice(elements, MaxResults)

\* find_elements throwing when nothing matches, as click_element does
findElementsThrowsOnEmpty(p, alive, searchTerms, dom) ==
  IF Falsy(p) THEN [result |-> NotInitialized, ops |-> <<>>, out |-> <<>>]
  ELSE LET eval == Op("evaluate", searchTerms, alive)
           trimmed == Trimmed(Elements(dom, searchTerms))
       IN IF ~eval.ok \/ trimmed = <<>>
          THEN [result |-> Throw(<<Lit("Failed to find elements: "), DriverError>>),
                ops |-> <<eval>>, out |-> <<>>]
          ELSE [result |-> Return(<<Val([count |-> Len(trimmed), top |-> trimmed])>>),
                ops |-> <<eval>>, out |-> [count |-> Len(trimmed), top |-> trimmed]]

\* execute() of find_elements
findElements(p, alive, searchTerms, dom) ==
  IF Falsy(p) THEN [result |-> NotInitialized, ops |-> <<>>, out |-> <<>>]
  ELSE LET eval == Op("evaluate", searchTerms, alive)
           trimmed == Trimmed(Elements(dom, searchTerms))
       IN IF ~eval.ok
          THEN [result |-> Throw(<<Lit("Failed to find elements: "), DriverError>>),
                ops |-> <<eval>>, out |-> <<>>]
          ELSE [result |-> Return(<<Val([count |-> Len(trimmed), top |-> trimmed])>>),
                ops |-> <<eval>>, out |-> [count |-> Len(trimmed), top |-> trimmed]]

\* elements a page may hold
SignUpLink ==
  [tag |-> "a", role |-> "", type |-> "", onclick |-> FALSE,
   textContent |-> <<" ", "S", "i", "g", "n", " ", "U", "p", " ">>, classes |-> <<<<"b", "t", "n">>>>, id |-> <<"s", "i", "g", "n", "u", "p">>,
   left |-> 10, top |-> 20, width |-> 81, height |-> 30]
CreateButton ==
  [tag |-> "button", role |-> "button", type |-> "submit", onclick |-> TRUE,
   textContent |-> <<"C", "r", "e", "a", "t", "e", " ", "A", "c", "c", "o", "u", "n", "t">>, classes |-> <<<<"b", "t", "n">>, <<"b", "u", "t", "t", "o", "n">>>>, id |-> <<>>,
   left |-> 0, top |-> 100, width |-> 120, height |-> 41]
HiddenButton ==
  [tag |-> "button", role |-> "", type |-> "", onclick |-> FALSE,
   textContent |-> <<"S", "i", "g", "n", " ", "U", "p">>, classes |-> <<>>, id |-> <<>>,
   left |-> 0, top |-> 0, width |-> 0, height |-> 30]
SubmitInput ==
  [tag |-> "input", role |-> "", type |-> "submit", onclick |-> FALSE,
   textContent |-> <<>>, classes |-> <<>>, id |-> <<"g", "o">>,
   left |-> 5, top |-> 200, width |-> 60, height |-> 20]

ElementKinds == {SignUpLink, CreateButton, HiddenButton, SubmitInput}

\* a link whose text is n letters long
LongLink(n) ==
  [tag |-> "a", role |-> "", type |-> "", onclick |-> FALSE,
   textContent |-> [i \in 1 .. n |-> "s"], classes |-> <<>>,
   id |-> <<"s", "i", "g", "n", "u", "p">>,
   left |-> 0, top |-> 300, width |-> 400, height |-> 20]

\* pages with texts around the length kept of a text
LongDoms ==
  {<<LongLink(MaxText + 1), LongLink(MaxText + 10)>>,
   <<LongLink(MaxText - 1), LongLink(MaxText + 10), SignUpLink>>}

\* words a planner may search for
TermKinds == {<<"s", "i", "g", "n">>, <<"B", "T", "N">>, <<"u", "p">>}

\* the sequences over S of length at most n
SeqsUpTo(S, n) == UNION {[1 .. m -> S] : m \in 0 .. n}

\* the sign-up page of the example run and the search for its sign-up button
ExampleDoms == {<<SignUpLink, CreateButton, HiddenButton>>}
ExampleTerms == {<<<<"s", "i", "g", "n">>, <<"u", "p">>>>}

FindElements(Doms, TermLists) ==
  /\ Ready
  /\ \E dom \in Doms, searchTerms \in TermLists :
       LET r == findElements(page, PageAlive(page, livePages), searchTerms, dom) IN
       last' = Call("find_elements", [searchTerms |-> searchTerms, dom |-> dom],
                    browser, page, r.result, r.ops, r.out)
  /\ UNCHANGED session

(* ---------------------------- click_element ---------------------------- *)

ClickTimeoutMs == 2000
ClickSettleMs == 600

\* const attempts = [...]: the five ways a text hint is resolved, in order
ClickStrategies ==
  <<"getByRole button", "getByRole link", "getByText", "text selector", "has-text selector">>

\* for (const tryClick of attempts) { try { click; settle; return } catch {} }
\* from attempt i on.  hits: the strategies that resolve to an element on the
\* page; closes: the click closes the page it lands on.
RECURSIVE TryClicks(_, _, _, _, _, _)
TryClicks(i, text, alive, hits, closes, ops) ==
  IF i > Len(ClickStrategies)
  THEN [clicked |-> FALSE, alive |-> alive, ops |-> ops]
  ELSE LET click == Op("click", <<ClickStrategies[i], text, ClickTimeoutMs>>, alive /\ i \in hits)
           open == alive /\ ~(click.ok /\ closes)
           wait == Op("waitForTimeout", ClickSettleMs, open)
       IN IF ~click.ok THEN TryClicks(i + 1, text, alive, hits, closes, Append(ops, click))
          ELSE IF ~wait.ok
               THEN TryClicks(i + 1, text, open, hits, closes, ops \o <<click, wait>>)
          ELSE [clicked |-> TRUE, alive |-> open, ops |-> ops \o <<click, wait>>]

\* the text branch of click_element
ClickByText(text, alive, hits, closes) ==
  LET r == TryClicks(1, text, alive, hits, closes, <<>>) IN
  IF r.clicked
  THEN [result |-> Return(<<Lit("Clicked \""), Val(text), Lit("\"")>>),
        ops |-> r.ops, alive |-> r.alive]
  ELSE [result |-> Throw(<<Lit("Failed to click: "), Lit("Could not click \""), Val(text),
                           Lit("\"")>>),
        ops |-> r.ops, alive |-> r.alive]

\* the coordinate branch of click_element
ClickAt(x, y, alive, closes) ==
  LET click == Op("mouse.click", <<x, y>>, alive)
      open == alive /\ ~(click.ok /\ closes)
      wait == Op("waitForTimeout", ClickSettleMs, open)
      failed == Throw(<<Lit("Failed to click: "), DriverError>>)
  IN IF ~click.ok THEN [result |-> failed, ops |-> <<click>>, alive |-> open]
     ELSE IF ~wait.ok THEN [result |-> failed, ops |-> <<click, wait>>, alive |-> open]
     ELSE [result |-> Return(<<Lit("Clicked at ("), Val(x), Lit(", "), Val(y), Lit(")")>>),
           ops |-> <<click, wait>>, alive |-> open]

\* click_element testing the coordinates before the text
ClickModeCoordinatesFirst(text, x, y) ==
  IF ~Nullish(x) /\ ~Nullish(y) THEN "coordinates"
  ELSE IF ~Falsy(text) THEN "text"
  ELSE "neither"

\* click_element with x != null || y != null for its second test
ClickModeAnyCoordinate(text, x, y) ==
  IF ~Falsy(text) THEN "text"
  ELSE IF ~Nullish(x) \/ ~Nullish(y) THEN "coordinates"
  ELSE "neither"

\* if (text) ... else if (x != null && y != null) ... else ...
ClickMode(text, x, y) ==
  IF ~Falsy(text) THEN "text"
  ELSE IF ~Nullish(x) /\ ~Nullish(y) THEN "coordinates"
  ELSE "neither"

\* click_element without its first line, if (!page) throw ...
clickElementUnguarded(p, alive, text, x, y, hits, closes) ==
  CASE ClickMode(text, x, y) = "text" -> ClickByText(text, alive, hits, closes)
    [] ClickMode(text, x, y) = "coordinates" -> ClickAt(x, y, alive, closes)
    [] ClickMode(text, x, y) = "neither" ->
         [result |-> Throw(<<Lit("Failed to click: "), Lit("Provide text or coordinates")>>),
          ops |-> <<>>, alive |-> alive]

\* execute() of click_element
clickElement(p, alive, text, x, y, hits, closes) ==
  IF Falsy(p) THEN [result |-> NotInitialized, ops |-> <<>>, alive |-> alive]
  ELSE CASE ClickMode(text, x, y) = "text" -> ClickByText(text, alive, hits, closes)
         [] ClickMode(text, x, y) = "coordinates" -> ClickAt(x, y, alive, closes)
         [] ClickMode(text, x, y) = "neither" ->
              [result |-> Throw(<<Lit("Failed to click: "), Lit("Provide text or coordinates")>>),
               ops |-> <<>>, alive |-> alive]

\* the hint of the example run (src/index.js:289), the empty hint and no hint
Texts ==
  {JsNull, Str(<<>>),
   Str(<<"C", "r", "e", "a", "t", "e", " ", "A", "c", "c", "o", "u", "n", "t">>)}
Xs == {JsNull, Num(0)}
Ys == {JsNull, Num(7)}

ClickElement ==
  /\ Ready
  /\ \E text \in Texts, x \in Xs, y \in Ys,
        hits \in SUBSET (1 .. Len(ClickStrategies)), closes \in BOOLEAN :
       LET alive == PageAlive(page, livePages)
           r == clickElement(page, alive, text, x, y, hits, closes)
       IN /\ livePages' = IF alive /\ ~r.alive THEN livePages \ {page.id} ELSE livePages
          /\ last' = Call("click_element",
                          [text |-> text, x |-> x, y |-> y, hits |-> hits, closes |-> closes],
                          browser, page, r.result, r.ops, <<>>)
  /\ UNCHANGED <<browser, page, launched, liveBrowsers, exited>>

(* -------------------------- fill_form_fields --------------------------- *)

FillTimeoutMs == 1000
DefaultDelayMs == 120

\* the five attempts pushed for every label, in order
FillStrategies ==
  <<"getByLabel", "getByPlaceholder", "input[name*=key]", "input[id*=key]", "label:has-text">>

\* tasks in the order of the parameters of the tool: confirmPassword before message
tasksInParameterOrder ==
  << [key |-> "First Name", param |-> "firstName",
      labels |-> <<"First Name", "Firstname", "Given Name", "First">>],
     [key |-> "Last Name", param |-> "lastName",
      labels |-> <<"Last Name", "Lastname", "Surname", "Family Name", "Last">>],
     [key |-> "Full Name", param |-> "fullName",
      labels |-> <<"Full Name", "Full name", "FullName", "fullName">>],
     [key |-> "Email", param |-> "email",
      labels |-> <<"Email", "Email Address", "E-mail">>],
     [key |-> "Username", param |-> "userName",
      labels |-> <<"Username", "UserName", "User name">>],
     [key |-> "Password", param |-> "password",
      labels |-> <<"Password", "New Password">>],
     [key |-> "Confirm Password", param |-> "confirmPassword",
      labels |-> <<"Confirm Password", "Re-enter Password", "Retype Password", "Confirm">>],
     [key |-> "Your Message", param |-> "message",
      labels |-> <<"Your Message", "message">>] >>

\* const tasks = [...]
tasks ==
  << [key |-> "First Name", param |-> "firstName",
      labels |-> <<"First Name", "Firstname", "Given Name", "First">>],
     [key |-> "Last Name", param |-> "lastName",
      labels |-> <<"Last Name", "Lastname", "Surname", "Family Name", "Last">>],
     [key |-> "Full Name", param |-> "fullName",
      labels |-> <<"Full Name", "Full name", "FullName", "fullName">>],
     [key |-> "Email", param |-> "email",
      labels |-> <<"Email", "Email Address", "E-mail">>],
     [key |-> "Username", param |-> "userName",
      labels |-> <<"Username", "UserName", "User name">>],
     [key |-> "Password", param |-> "password",
      labels |-> <<"Password", "New Password">>],
     [key |-> "Your Message", param |-> "message",
      labels |-> <<"Your Message", "message">>],
     [key |-> "Confirm Password", param |-> "confirmPassword",
      labels |-> <<"Confirm Password", "Re-enter Password", "Retype Password", "Confirm">>] >>

Params == {tasks[i].param : i \in 1 .. Len(tasks)}

\* attempts[a] of tryFill: label (a - 1) \div 5 + 1 with strategy (a - 1) % 5 + 1
AttemptLabel(a) == ((a - 1) \div Len(FillStrategies)) + 1
AttemptStrategy(a) == ((a - 1) % Len(FillStrategies)) + 1

\* the loop over attempts without its return true: every attempt is made
RECURSIVE FillAttemptsNoStop(_, _, _, _, _, _)
FillAttemptsNoStop(a, t, value, alive, hit, ops) ==
  IF a > Len(t.labels) * Len(FillStrategies)
  THEN [ok |-> \E i \in 1 .. Len(ops) : ops[i].ok, ops |-> ops]
  ELSE LET l == AttemptLabel(a)
           k == AttemptStrategy(a)
           try == Op("fill", <<t.key, t.labels[l], FillStrategies[k], value, FillTimeoutMs>>,
                     alive /\ <<l, k>> \in hit)
       IN FillAttemptsNoStop(a + 1, t, value, alive, hit, Append(ops, try))

\* for (const a of attempts) { try { await a(); return true; } catch {} } return false;
\* from attempt a on.  hit: the <<label, strategy>> pairs that resolve to an
\* input on the page
RECURSIVE FillAttempts(_, _, _, _, _, _)
FillAttempts(a, t, value, alive, hit, ops) ==
  IF a > Len(t.labels) * Len(FillStrategies) THEN [ok |-> FALSE, ops |-> ops]
  ELSE LET l == AttemptLabel(a)
           k == AttemptStrategy(a)
           try == Op("fill", <<t.key, t.labels[l], FillStrategies[k], value, FillTimeoutMs>>,
                     alive /\ <<l, k>> \in hit)
       IN IF try.ok THEN [ok |-> TRUE, ops |-> Append(ops, try)]
          ELSE FillAttempts(a + 1, t, value, alive, hit, Append(ops, try))

\* const tryFill = async (labels, value) => ...
tryFill(t, value, alive, hit) ==
  IF Nullish(value) THEN [ok |-> FALSE, ops |-> <<>>]
  ELSE FillAttempts(1, t, value, alive, hit, <<>>)

\* const delay = typeof perFieldDelayMs === 'number' ? perFieldDelayMs : 120
Delay(perFieldDelayMs) ==
  IF perFieldDelayMs.t = "number" THEN perFieldDelayMs.v ELSE DefaultDelayMs

\* the loop without if (t.value == null) continue
SkippedNever(value) == FALSE

\* if (t.value == null) continue
Skipped(value) == Nullish(value)

\* `${t.key}:${ok?'ok':'missing'}`
Entry(t, ok) == [key |-> t.key, status |-> IF ok THEN "ok" ELSE "missing"]

\* for (const t of tasks) { ... } from task i on; results: the entries pushed so far
RECURSIVE FillTasks(_, _, _, _, _, _, _)
FillTasks(i, values, delay, alive, hits, results, ops) ==
  IF i > Len(tasks) THEN [thrown |-> FALSE, results |-> results, ops |-> ops]
  ELSE LET t == tasks[i]
           value == values[t.param]
       IN IF Skipped(value) THEN FillTasks(i + 1, values, delay, alive, hits, results, ops)
          ELSE LET r == tryFill(t, value, alive, hits[i])
                   pushed == Append(results, Entry(t, r.ok))
                   wait == Op("waitForTimeout", delay, alive)
               IN IF delay = 0
                  THEN FillTasks(i + 1, values, delay, alive, hits, pushed, ops \o r.ops)
                  ELSE IF ~wait.ok
                       THEN [thrown |-> TRUE, results |-> pushed,
                             ops |-> (ops \o r.ops) \o <<wait>>]
                  ELSE FillTasks(i + 1, values, delay, alive, hits, pushed,
                                 (ops \o r.ops) \o <<wait>>)

\* results.join('|')
RECURSIVE Join(_)
Join(results) ==
  IF results = <<>> THEN <<>>
  ELSE LET e == Head(results)
           piece == <<Lit(e.key), Lit(":"), Lit(e.status)>>
       IN IF Len(results) = 1 THEN piece ELSE (piece \o <<Lit("|")>>) \o Join(Tail(results))

\* execute() of fill_form_fields
fillFormFields(p, alive, values, perFieldDelayMs, hits) ==
  IF Falsy(p) THEN [result |-> NotInitialized, ops |-> <<>>, out |-> <<>>]
  ELSE LET r == FillTasks(1, values, Delay(perFieldDelayMs), alive, hits, <<>>, <<>>) IN
       IF r.thrown THEN [result |-> Throw(<<DriverError>>), ops |-> r.ops, out |-> <<>>]
       ELSE [result |-> Return(Join(r.results)), ops |-> r.ops, out |-> r.results]

\* what the page offers for the fields it has: the first label as an accessible
\* label; the second label as a name and as an id; only the last attempt
PagePatterns == {"label", "name and id", "last"}

PatternHits(pattern, t) ==
  CASE pattern = "label" -> {<<1, 1>>}
    [] pattern = "name and id" -> {<<2, 3>>, <<2, 4>>}
    [] pattern = "last" -> {<<Len(t.labels), Len(FillStrategies)>>}

\* the page has every field but those of absent, each in the way of pattern
PageHits(pattern, absent) ==
  [i \in 1 .. Len(tasks) |->
     IF tasks[i].param \in absent THEN {} ELSE PatternHits(pattern, tasks[i])]

Given(values) == {q \in Params : ~Nullish(values[q])}

Delays == {JsNull, Num(0)}

\* the values of the example run (src/index.js:284-288)
ExampleValues ==
  [firstName |-> Str(<<"S", "u", "d", "h", "e", "s", "h">>), lastName |-> Str(<<"H", "o", "l", "l", "a">>), fullName |-> JsNull,
   email |-> Str(<<"s", "u", "d", "h", "e", "s", "h", "h", "o", "l", "l", "a", "1", "5", "@", "g", "m", "a", "i", "l", ".", "c", "o", "m">>), userName |-> JsNull, password |-> Str(<<"a", "d", "m", "i", "n", "1", "2", "3">>),
   confirmPassword |-> Str(<<"a", "d", "m", "i", "n", "1", "2", "3">>), message |-> JsNull]

FillFormFields(Values) ==
  /\ Ready
  /\ \E values \in Values, perFieldDelayMs \in Delays, pattern \in PagePatterns :
       \E absent \in SUBSET Given(values) :
         LET hits == PageHits(pattern, absent)
             r == fillFormFields(page, PageAlive(page, livePages), values, perFieldDelayMs,
                                 hits)
         IN last' = Call("fill_form_fields",
                         [values |-> values, perFieldDelayMs |-> perFieldDelayMs,
                          hits |-> hits],
                         browser, page, r.result, r.ops, r.out)
  /\ UNCHANGED session

(* ---------------------------- close_browser ---------------------------- *)

\* close_browser without page = null
closeBrowserKeepsPage(b, p, closeOk) ==
  IF ~Falsy(b)
  THEN IF closeOk
       THEN [browser |-> JsNull, page |-> p, closed |-> {b.id},
             result |-> Return(<<Lit("Browser closed")>>)]
       ELSE [browser |-> b, page |-> p, closed |-> {},
             result |-> Throw(<<Lit("Failed to close browser: "), DriverError>>)]
  ELSE [browser |-> b, page |-> p, closed |-> {}, result |-> Return(<<Lit("Browser not open")>>)]

\* the handles after execute() of close_browser; closeOk: browser.close() resolves
closeBrowser(b, p, closeOk) ==
  IF ~Falsy(b)
  THEN IF closeOk
       THEN [browser |-> JsNull, page |-> JsNull, closed |-> {b.id},
             result |-> Return(<<Lit("Browser closed")>>)]
       ELSE [browser |-> b, page |-> p, closed |-> {},
             result |-> Throw(<<Lit("Failed to close browser: "), DriverError>>)]
  ELSE [browser |-> b, page |-> p, closed |-> {}, result |-> Return(<<Lit("Browser not open")>>)]

CloseBrowser ==
  /\ Ready
  /\ \E closeOk \in BOOLEAN :
       LET r == closeBrowser(browser, page, closeOk) IN
       /\ browser' = r.browser
       /\ page' = r.page
       /\ liveBrowsers' = liveBrowsers \ r.closed
       /\ livePages' = livePages \ r.closed
       /\ last' = Call("close_browser", closeOk, browser, page, r.result, <<>>, <<>>)
  /\ UNCHANGED <<launched, exited>>

(* --------------------------- signal handlers --------------------------- *)

\* SIGINT / SIGTERM: close the held browser, then exit
SignalHandler ==
  /\ ~exited
  /\ exited' = TRUE
  /\ liveBrowsers' = IF ~Falsy(browser) THEN liveBrowsers \ {browser.id} ELSE liveBrowsers
  /\ livePages' = IF ~Falsy(browser) THEN livePages \ {browser.id} ELSE livePages
  /\ UNCHANGED <<browser, page, launched, last>>

(* ------------------------------ planner -------------------------------- *)

\* the planner takes the result of the call and goes on to its next decision
Deliver ==
  /\ ~exited
  /\ last # Idle
  /\ last' = Idle
  /\ UNCHANGED session

Next ==
  \/ OpenBrowser
  \/ OpenURL
  \/ TakeScreenshot
  \/ FindElements(ExampleDoms, ExampleTerms)
  \/ ClickElement
  \/ FillFormFields({ExampleValues})
  \/ CloseBrowser
  \/ SignalHandler
  \/ Deliver

Spec == Init /\ [][Next]_vars

(* ------------------- the tools on their own, one by one ----------------- *)

\* a session on which open_browser has not run, one it has opened, and one
\* whose page has since been closed by a click
InitTool ==
  /\ \/ /\ browser = Undefined /\ page = Undefined
        /\ launched = 0 /\ liveBrowsers = {} /\ livePages = {}
     \/ /\ browser = Obj(1) /\ page = Obj(1)
        /\ launched = 1 /\ liveBrowsers = {1} /\ livePages \in {{1}, {}}
  /\ exited = FALSE
  /\ last = Idle

Doms == SeqsUpTo(ElementKinds, MaxElems) \cup LongDoms
TermLists == SeqsUpTo(TermKinds, MaxTerms)

NextLocate ==
  \/ FindElements(Doms, TermLists)
  \/ Deliver

SpecLocate == InitTool /\ [][NextLocate]_vars

\* the value a field is given when it is given one: the empty string for the
\* user name, a letter for the others
SampleValue(param) == IF param = "userName" THEN Str(<<>>) ELSE Str(<<"v">>)

\* every choice of at most MaxGiven fields to give a value
FillValues ==
  {[q \in Params |-> IF q \in G THEN SampleValue(q) ELSE JsNull] :
     G \in {H \in SUBSET Params : Cardinality(H) <= MaxGiven}}

NextFill ==
  \/ FillFormFields(FillValues)
  \/ Deliver

SpecFill == InitTool /\ [][NextFill]_vars

(* ------------- click_element and fill_form_fields step by step --------- *)

\* a call of click_element or fill_form_fields between two driver calls:
\* pc is where the handler stands, i the attempt of click_element or the task
\* of fill_form_fields, a the attempt of tryFill, alive whether the page is
\* still open, results and ops what was pushed and called so far
Step(tool, args, prePage, pc, i, a, alive, results, ops, result) ==
  [tool |-> tool, args |-> args, prePage |-> prePage, pc |-> pc, i |-> i, a |-> a,
   alive |-> alive, results |-> results, ops |-> ops, result |-> result]

Running == last # Idle /\ last.pc # "done"

Done == last # Idle /\ last.pc = "done"

\* the loop of a fallback chain going on with the next entry of attempts
NextAttemptStuck(i) == i

\* for (const attempt of attempts): the entry after entry i
NextAttempt(i) == i + 1

\* click_element up to its loop: the guard, and the branches without a loop
StartClick ==
  /\ Ready
  /\ \E text \in Texts, x \in Xs, y \in Ys,
        hits \in SUBSET (1 .. Len(ClickStrategies)), closes \in BOOLEAN :
       LET alive == PageAlive(page, livePages)
           args == [text |-> text, x |-> x, y |-> y, hits |-> hits, closes |-> closes,
                    alive |-> alive]
       IN IF Falsy(page) \/ ClickMode(text, x, y) # "text"
          THEN LET r == clickElement(page, alive, text, x, y, hits, closes) IN
               /\ livePages' = IF alive /\ ~r.alive THEN livePages \ {page.id} ELSE livePages
               /\ last' = Step("click_element", args, page, "done", 0, 0, r.alive, <<>>,
                               r.ops, r.result)
          ELSE /\ livePages' = livePages
               /\ last' = Step("click_element", args, page, "attempt", 1, 0, alive, <<>>,
                               <<>>, Undefined)
  /\ UNCHANGED <<browser, page, launched, liveBrowsers, exited>>

\* one turn of for (const tryClick of attempts) { try { ... } catch {} }, or
\* the throw after the loop
ClickStep ==
  /\ ~exited
  /\ last # Idle /\ last.tool = "click_element" /\ last.pc = "attempt"
  /\ LET i == last.i
         text == last.args.text
     IN IF i > Len(ClickStrategies)
        THEN /\ last' = [last EXCEPT !.pc = "done",
                           !.result = Throw(<<Lit("Failed to click: "),
                                              Lit("Could not click \""), Val(text),
                                              Lit("\"")>>)]
             /\ livePages' = livePages
        ELSE LET click == Op("click", <<ClickStrategies[i], text, ClickTimeoutMs>>,
                             last.alive /\ i \in last.args.hits)
                 open == last.alive /\ ~(click.ok /\ last.args.closes)
                 wait == Op("waitForTimeout", ClickSettleMs, open)
             IN /\ livePages' = IF last.alive /\ ~open THEN livePages \ {page.id}
                                ELSE livePages
                /\ last' =
                     IF ~click.ok
                     THEN [last EXCEPT !.i = NextAttempt(i), !.ops = Append(@, click)]
                     ELSE IF ~wait.ok
                     THEN [last EXCEPT !.i = NextAttempt(i), !.alive = open,
                                       !.ops = @ \o <<click, wait>>]
                     ELSE [last EXCEPT !.pc = "done", !.alive = open,
                                       !.ops = @ \o <<click, wait>>,
                                       !.result = Return(<<Lit("Clicked \""), Val(text),
                                                           Lit("\"")>>)]
  /\ UNCHANGED <<browser, page, launched, liveBrowsers, exited>>

\* fill_form_fields up to its loop over tasks
StartFill(Values) ==
  /\ Ready
  /\ \E values \in Values, perFieldDelayMs \in Delays, pattern \in PagePatterns :
       \E absent \in SUBSET Given(values) :
         LET alive == PageAlive(page, livePages)
             args == [values |-> values, perFieldDelayMs |-> perFieldDelayMs,
                      hits |-> PageHits(pattern, absent), alive |-> alive]
         IN last' = IF Falsy(page)
                    THEN Step("fill_form_fields", args, page, "done", 0, 0, alive, <<>>,
                              <<>>, NotInitialized)
                    ELSE Step("fill_form_fields", args, page, "task", 1, 0, alive, <<>>,
                              <<>>, Undefined)
  /\ UNCHANGED session

\* for (const t of tasks) { if (t.value == null) continue; ... }, or the return
\* after the loop
FillTask ==
  /\ ~exited
  /\ last # Idle /\ last.tool = "fill_form_fields" /\ last.pc = "task"
  /\ last' =
       IF last.i > Len(tasks)
       THEN [last EXCEPT !.pc = "done", !.result = Return(Join(last.results))]
       ELSE IF Skipped(last.args.values[tasks[last.i].param])
       THEN [last EXCEPT !.i = @ + 1]
       ELSE [last EXCEPT !.pc = "attempt", !.a = 1]
  /\ UNCHANGED session

\* one turn of for (const a of attempts) { try { await a(); return true; } catch {} },
\* or the return false after the loop; then results.push
FillStep ==
  /\ ~exited
  /\ last # Idle /\ last.tool = "fill_form_fields" /\ last.pc = "attempt"
  /\ LET t == tasks[last.i]
         a == last.a
     IN last' =
          IF a > Len(t.labels) * Len(FillStrategies)
          THEN [last EXCEPT !.pc = "delay", !.results = Append(@, Entry(t, FALSE))]
          ELSE LET l == AttemptLabel(a)
                   k == AttemptStrategy(a)
                   try == Op("fill",
                             <<t.key, t.labels[l], FillStrategies[k],
                               last.args.values[t.param], FillTimeoutMs>>,
                             last.alive /\ <<l, k>> \in last.args.hits[last.i])
               IN IF try.ok
                  THEN [last EXCEPT !.pc = "delay", !.ops = Append(@, try),
                                    !.results = Append(@, Entry(t, TRUE))]
                  ELSE [last EXCEPT !.a = NextAttempt(a), !.ops = Append(@, try)]
  /\ UNCHANGED session

\* if (delay) await page.waitForTimeout(delay)
FillDelay ==
  /\ ~exited
  /\ last # Idle /\ last.tool = "fill_form_fields" /\ last.pc = "delay"
  /\ LET delay == Delay(last.args.perFieldDelayMs)
         wait == Op("waitForTimeout", delay, last.alive)
     IN last' =
          IF delay = 0 THEN [last EXCEPT !.pc = "task", !.i = @ + 1]
          ELSE IF ~wait.ok
          THEN [last EXCEPT !.pc = "done", !.ops = Append(@, wait),
                            !.result = Throw(<<DriverError>>)]
          ELSE [last EXCEPT !.pc = "task", !.i = @ + 1, !.ops = Append(@, wait)]
  /\ UNCHANGED session

\* the planner takes the result of the call that has ended
DeliverDone ==
  /\ ~exited
  /\ Done
  /\ last' = Idle
  /\ UNCHANGED session

\* the values of the example run, and every single field on its own
ChainValues ==
  {ExampleValues} \cup
  {[q \in Params |-> IF q = g THEN SampleValue(q) ELSE JsNull] : g \in Params}

NextChain ==
  \/ StartClick
  \/ ClickStep
  \/ StartFill(ChainValues)
  \/ FillTask
  \/ FillStep
  \/ FillDelay
  \/ DeliverDone

\* every driver call is awaited with a timeout (2000 ms a click, 1000 ms a
\* fill) or is a timer, so a step that is begun ends
ChainFairness ==
  /\ WF_vars(ClickStep)
  /\ WF_vars(FillTask)
  /\ WF_vars(FillStep)
  /\ WF_vars(FillDelay)

SpecChain == InitTool /\ [][NextChain]_vars /\ ChainFairness

\* a call run step by step ends as the call run at once
StepwiseAgrees ==
  Done =>
    LET c == last.args IN
    IF last.tool = "click_element"
    THEN LET r == clickElement(last.prePage, c.alive, c.text, c.x, c.y, c.hits, c.closes) IN
         /\ last.result = r.result
         /\ last.ops = r.ops
         /\ last.alive = r.alive
    ELSE LET r == fillFormFields(last.prePage, c.alive, c.values, c.perFieldDelayMs, c.hits) IN
         /\ last.result = r.result
         /\ last.ops = r.ops
         /\ (r.result.kind = "return" => last.results = r.out)

(* ======================= the claims, C1 to C10 ========================== *)

PageTools ==
  {"open_url", "take_screenshot", "find_elements", "click_element", "fill_form_fields"}

\* the positions of ops at which the driver was asked to click
ClickOps(ops) == {i \in 1 .. Len(ops) : ops[i].op \in {"click", "mouse.click"}}
\* ... and clicked
Clicked(ops) == {i \in ClickOps(ops) : ops[i].ok}

\* the positions of ops at which the driver was asked to fill the field key
FillOps(ops, key) == {i \in 1 .. Len(ops) : ops[i].op = "fill" /\ ops[i].arg[1] = key}

IsClick == last.tool = "click_element" /\ ~Falsy(last.prePage)
IsFill == last.tool = "fill_form_fields" /\ ~Falsy(last.prePage)
IsFind == last.tool = "find_elements" /\ ~Falsy(last.prePage)

(* C1 as stated: every action other than open (navigate, capture, locate,   *)
(* act, fill, close), invoked while the session is closed, fails with the   *)
(* precondition error before any page interaction.                          *)
C1_EveryOtherActionFailsWhenClosed ==
  (last.tool \in PageTools \cup {"close_browser"} /\ Falsy(last.prePage))
    => (last.result = NotInitialized /\ last.ops = <<>>)

(* C1 as amended: navigate, capture, locate, act and fill, invoked while no *)
(* page is held, fail with the precondition error before any page           *)
(* interaction; close does not: invoked while no browser is held it returns *)
(* "Browser not open" and leaves the handles as they were.                  *)
C1_PageToolsFailWhenClosed ==
  /\ (last.tool \in PageTools /\ Falsy(last.prePage))
       => (last.result = NotInitialized /\ last.ops = <<>>)
  /\ (last.tool = "close_browser" /\ Falsy(last.preBrowser))
       => /\ last.result = Return(<<Lit("Browser not open")>>)
          /\ browser = last.preBrowser
          /\ page = last.prePage

\* act called on a session closed since its last open
C1_Witness ==
  /\ last.tool = "click_element"
  /\ last.prePage = JsNull
  /\ ~Falsy(last.args.text)
  /\ last.args.hits # {}
  /\ last.result = NotInitialized

(* C2: each act call on an open session carries out at most one click, a    *)
(* call that reports success carried out exactly one click, and in text     *)
(* mode no strategy is attempted after an earlier strategy has clicked.     *)
C2_ExactlyOneInteraction ==
  IsClick =>
    /\ Cardinality(Clicked(last.ops)) <= 1
    /\ last.result.kind = "return" => Cardinality(Clicked(last.ops)) = 1
    /\ \A i \in Clicked(last.ops) : \A j \in ClickOps(last.ops) : j <= i

\* the message of act's not-found error for the hint text
NotFound(text) ==
  Throw(<<Lit("Failed to click: "), Lit("Could not click \""), Val(text), Lit("\"")>>)

\* the strategies ops asked the driver to click with, in the order asked
RECURSIVE StrategiesTried(_)
StrategiesTried(ops) ==
  IF ops = <<>> THEN <<>>
  ELSE (IF Head(ops).op = "click" THEN <<Head(ops).arg[1]>> ELSE <<>>)
         \o StrategiesTried(Tail(ops))

IsPrefix(s, t) == Len(s) <= Len(t) /\ SubSeq(t, 1, Len(s)) = s

(* C3: with the session open and a non-empty text hint, act fails with the  *)
(* not-found error naming the text if and only if all five strategies       *)
(* failed; the strategies are tried in the fixed order, each at most once.  *)
C3_NotFoundIffAllFailed ==
  (IsClick /\ ~Falsy(last.args.text)) =>
    /\ last.result = NotFound(last.args.text)
         <=> /\ Cardinality(ClickOps(last.ops)) = 5
             /\ Clicked(last.ops) = {}
    /\ IsPrefix(StrategiesTried(last.ops),
                <<"getByRole button", "getByRole link", "getByText", "text selector",
                  "has-text selector">>)

(* C4: with the session open, an act call with neither a text hint nor a    *)
(* complete (x, y) pair fails with the caller error and asks nothing of the *)
(* page.                                                                    *)
C4_NeitherIsCallerError ==
  (IsClick /\ Falsy(last.args.text) /\ (Nullish(last.args.x) \/ Nullish(last.args.y))) =>
    /\ last.result = Throw(<<Lit("Failed to click: "), Lit("Provide text or coordinates")>>)
    /\ last.ops = <<>>

\* act called on an open page with x alone
C4_Witness ==
  /\ IsClick
  /\ PageAlive(last.prePage, livePages)
  /\ last.args.text = JsNull
  /\ last.args.x = Num(0)
  /\ last.args.y = JsNull
  /\ last.result.kind = "throw"

\* position of the task with this key in tasks
TaskIndex(key) == CHOOSE i \in 1 .. Len(tasks) : tasks[i].key = key

\* the entries of the report for the field key
Entries(report, key) == {i \in 1 .. Len(report) : report[i].key = key}

\* every attempt of task i was made and none resolved
AllAttemptsFail(i) ==
  /\ ~Nullish(last.args.values[tasks[i].param])
  /\ Cardinality(FillOps(last.ops, tasks[i].key)) = 5 * Len(tasks[i].labels)
  /\ \A a \in FillOps(last.ops, tasks[i].key) : ~last.ops[a].ok

(* C5: in fill, a field with a non-null value for which every synonym and   *)
(* every strategy fails is recorded as missing, the call does not throw,    *)
(* and every later field with a non-null value is attempted and reported.   *)
C5_MissingDoesNotAbort ==
  IsFill =>
    \A i \in 1 .. Len(tasks) :
      AllAttemptsFail(i) =>
        /\ last.result.kind = "return"
        /\ \E e \in Entries(last.out, tasks[i].key) : last.out[e].status = "missing"
        /\ \A j \in (i + 1) .. Len(tasks) :
             ~Nullish(last.args.values[tasks[j].param]) =>
               /\ FillOps(last.ops, tasks[j].key) # {}
               /\ Entries(last.out, tasks[j].key) # {}

(* C6: in fill, a field whose value is null is never attempted on the page  *)
(* and has no entry in the report; the report has an entry for a field if   *)
(* and only if its value is non-null.                                       *)
C6_NullFieldsAbsent ==
  IsFill =>
    \A i \in 1 .. Len(tasks) :
      LET value == last.args.values[tasks[i].param] IN
      /\ Nullish(value) => FillOps(last.ops, tasks[i].key) = {}
      /\ last.result.kind = "return" =>
           Cardinality(Entries(last.out, tasks[i].key)) = IF Nullish(value) THEN 0 ELSE 1

\* a report without the fields left null, which the page has, and with the
\* user name, given as the empty string
C6_Witness ==
  /\ IsFill
  /\ last.result.kind = "return"
  /\ last.args.values["userName"] = Str(<<>>)
  /\ Entries(last.out, "Username") # {}
  /\ last.args.values["email"] = JsNull
  /\ last.args.hits[TaskIndex("Email")] # {}
  /\ Entries(last.out, "Email") = {}

DeclaredOrder ==
  <<"First Name", "Last Name", "Full Name", "Email", "Username", "Password",
    "Your Message", "Confirm Password">>

Declared(key) == CHOOSE i \in 1 .. Len(DeclaredOrder) : DeclaredOrder[i] = key

(* C7: the fill report lists its entries in field declaration order (First  *)
(* Name, Last Name, Full Name, Email, Username, Password, Your Message,     *)
(* Confirm Password) whatever the outcome of each field, and the fields are *)
(* attempted on the page in that order, one after another.                  *)
C7_DeclarationOrder ==
  IsFill =>
    /\ \A i, j \in 1 .. Len(last.out) :
         i < j => Declared(last.out[i].key) < Declared(last.out[j].key)
    /\ \A i, j \in 1 .. Len(last.ops) :
         (i < j /\ last.ops[i].op = "fill" /\ last.ops[j].op = "fill")
           => Declared(last.ops[i].arg[1]) <= Declared(last.ops[j].arg[1])

\* a report of a message that was not found and a confirmation that was
C7_Witness ==
  /\ IsFill
  /\ last.result.kind = "return"
  /\ last.out = <<[key |-> "Your Message", status |-> "missing"],
                  [key |-> "Confirm Password", status |-> "ok"]>>

(* C8: at most one page is active at a time: there is never more than one   *)
(* opened and not yet closed browser or page.                               *)
C8_AtMostOneActive ==
  /\ Cardinality(liveBrowsers) <= 1
  /\ Cardinality(livePages) <= 1

\* a step in which the tool is called and reports result
Reports(tool, msg) ==
  /\ last = Idle
  /\ last'.tool = tool
  /\ last'.result = Return(msg)

(* C9: a successful open leaves the session open, holding a browser just    *)
(* launched and the page it created, whatever it held before and without    *)
(* closing any browser; open succeeds whenever the driver does, also on an  *)
(* open session; a successful close of an open session closes the held      *)
(* browser and clears both handles.                                         *)
C9_OpenCloseTransitions ==
  [][ /\ Reports("open_browser", <<Lit("Browser opened")>>) =>
           /\ ~Falsy(browser') /\ ~Falsy(page')
           /\ browser'.id \notin 1 .. launched
           /\ page'.id = browser'.id
           /\ browser'.id \in liveBrowsers' /\ page'.id \in livePages'
           /\ liveBrowsers \subseteq liveBrowsers'
           /\ livePages \subseteq livePages'
      /\ (last = Idle /\ last'.tool = "open_browser" /\ last'.args = "ok") =>
           last'.result = Return(<<Lit("Browser opened")>>)
      /\ Reports("close_browser", <<Lit("Browser closed")>>) =>
           /\ ~Falsy(browser)
           /\ browser' = JsNull /\ page' = JsNull
           /\ browser.id \notin liveBrowsers'
           /\ browser.id \notin livePages'
    ]_vars

\* open has succeeded on an open session, whose browser is still running
C9_Witness ==
  /\ last.tool = "open_browser"
  /\ last.result = Return(<<Lit("Browser opened")>>)
  /\ ~Falsy(last.preBrowser) /\ ~Falsy(last.prePage)
  /\ last.preBrowser.id \in liveBrowsers
  /\ last.prePage.id \in livePages
  /\ browser # last.preBrowser
  /\ page # last.prePage

(* C10: locate never returns more than 6 candidates, whatever the number of *)
(* matching elements, and the count it reports is the length of the list.   *)
C10_AtMostSix ==
  (IsFind /\ last.result.kind = "return") =>
    /\ Len(last.out.top) <= 6
    /\ last.out.count = Len(last.out.top)
    /\ last.result.msg = <<Val(last.out)>>

\* locate has returned 6 of more than 6 matches
C10_Witness ==
  /\ IsFind
  /\ last.result.kind = "return"
  /\ Len(Scan(1, last.args.dom, last.args.searchTerms)) > 6
  /\ last.out.count = 6

(* ======================= the claims, C11 to C20 ========================= *)

Found == IsFind /\ last.result.kind = "return"

\* a ranks strictly before b: higher confidence, or equal confidence and a
\* longer text
RanksBefore(a, b) ==
  \/ a.confidence > b.confidence
  \/ a.confidence = b.confidence /\ Len(a.text) > Len(b.text)

\* how often c occurs in the list s
Count(s, c) == Cardinality({i \in 1 .. Len(s) : s[i] = c})

\* every object the scan of the page pushes for these terms
AllMatches == Scan(1, last.args.dom, last.args.searchTerms)

(* C11: in the list returned by locate a candidate of higher confidence     *)
(* comes before one of lower confidence and, at equal confidence, one with  *)
(* a longer text before one with a shorter text (the text as returned: the  *)
(* first 80 characters); the list is the first 6 of that ranking over all   *)
(* matches.                                                                 *)
C11_Ranking ==
  Found =>
    LET top == last.out.top
        all == AllMatches
    IN /\ \A i, j \in 1 .. Len(top) : i < j => ~RanksBefore(top[j], top[i])
       /\ Len(top) = IF Len(all) < 6 THEN Len(all) ELSE 6
       /\ \A i \in 1 .. Len(all) :
            /\ Count(top, all[i]) <= Count(all, all[i])
            /\ Count(top, all[i]) < Count(all, all[i]) =>
                 \A j \in 1 .. Len(top) : ~RanksBefore(all[i], top[j])

\* locate has put a longer text, scanned later, before a shorter one of the
\* same confidence, and has left out matches
C11_Witness ==
  /\ Found
  /\ Len(AllMatches) > 6
  /\ \E i, j \in 1 .. Len(AllMatches) :
       /\ i < j
       /\ AllMatches[i].confidence = AllMatches[j].confidence
       /\ Len(AllMatches[i].text) < Len(AllMatches[j].text)
       /\ Count(last.out.top, AllMatches[i]) > 0
       /\ Count(last.out.top, AllMatches[j]) > 0

(* C12: an element whose rendered width or height is zero is never in the   *)
(* list returned by locate, even when every search term matches it.         *)
C12_InvisibleNeverReturned ==
  Found =>
    \A i \in 1 .. Len(last.out.top) :
      LET el == last.args.dom[last.out.top[i].node] IN
      el.width > 0 /\ el.height > 0

\* locate has returned candidates from a page with an element of width zero
\* that every search term matches
C12_Witness ==
  /\ Found
  /\ last.out.count > 0
  /\ last.args.searchTerms # <<>>
  /\ \E n \in 1 .. Len(last.args.dom) :
       /\ last.args.dom[n].width = 0
       /\ Cardinality(Matches(last.args.dom[n], last.args.searchTerms))
            = Len(last.args.searchTerms)

\* some element of the page that is among the selected ones and rendered is
\* matched by some search term
SomeVisibleMatch ==
  \E n \in 1 .. Len(last.args.dom) :
    LET el == last.args.dom[n] IN
    /\ \E k \in 1 .. Len(selectors) : Selects(k, el)
    /\ el.width > 0 /\ el.height > 0
    /\ \E t \in 1 .. Len(last.args.searchTerms) : TermMatches(el, last.args.searchTerms[t])

(* C13: with the session open (its page still open), for every list of      *)
(* search terms that no visible whitelisted element matches, locate returns *)
(* an empty list with count 0 and raises no error.                          *)
C13_NoMatchIsEmpty ==
  (IsFind /\ PageAlive(last.prePage, livePages) /\ ~SomeVisibleMatch) =>
    /\ last.result.kind = "return"
    /\ last.out = [count |-> 0, top |-> <<>>]

\* locate has found nothing on a page whose only match is not rendered
C13_Witness ==
  /\ IsFind
  /\ PageAlive(last.prePage, livePages)
  /\ ~SomeVisibleMatch
  /\ last.args.searchTerms # <<>>
  /\ \E n \in 1 .. Len(last.args.dom) :
       Matches(last.args.dom[n], last.args.searchTerms) # {}
  /\ last.out = [count |-> 0, top |-> <<>>]

(* C15: the confidence of a candidate returned by locate is the number of   *)
(* distinct search terms that match the element, also for lists with        *)
(* repeated terms.                                                          *)
C15_ConfidenceCountsDistinctTerms ==
  Found =>
    \A i \in 1 .. Len(last.out.top) :
      LET el == last.args.dom[last.out.top[i].node]
          terms == last.args.searchTerms
      IN last.out.top[i].confidence
           = Cardinality({terms[t] : t \in {u \in 1 .. Len(terms) : TermMatches(el, terms[u])}})

(* C20: the list returned by locate contains each element of the page at    *)
(* most once, also when the element matches more than one selector.         *)
C20_EachElementOnce ==
  Found =>
    \A i, j \in 1 .. Len(last.out.top) :
      i # j => last.out.top[i].node # last.out.top[j].node

\* the positions of the coordinate clicks among the driver calls
MouseClicks(ops) == {i \in 1 .. Len(ops) : ops[i].op = "mouse.click"}

(* C17: the two modes of act exclude each other: with a non-empty text the  *)
(* coordinates are never clicked, also when every text strategy fails; the  *)
(* coordinates are clicked only when the text is null or empty and both x   *)
(* and y are given, and then at that point.                                 *)
C17_ModesExclusive ==
  IsClick =>
    LET a == last.args
        mouse == MouseClicks(last.ops)
    IN /\ ~Falsy(a.text) => mouse = {}
       /\ mouse # {} =>
            /\ Falsy(a.text) /\ ~Nullish(a.x) /\ ~Nullish(a.y)
            /\ ClickOps(last.ops) = mouse
            /\ \A i \in mouse : last.ops[i].arg = <<a.x, a.y>>

\* act with a text and both coordinates, on an open page where each of the
\* five text strategies has failed, has clicked nowhere
C17_Witness ==
  /\ IsClick
  /\ ~Falsy(last.args.text) /\ ~Nullish(last.args.x) /\ ~Nullish(last.args.y)
  /\ PageAlive(last.prePage, livePages)
  /\ Cardinality(ClickOps(last.ops)) = Len(ClickStrategies)
  /\ last.result.kind = "throw"
  /\ MouseClicks(last.ops) = {}

(* C18: in every reachable state, the states left by failing calls          *)
(* included, the browser handle and the page handle are both unset or both  *)
(* set, and when set the page was created by the browser that is held.      *)
C18_HandlesPaired ==
  \/ Falsy(browser) /\ Falsy(page)
  \/ ~Falsy(browser) /\ ~Falsy(page) /\ page.id = browser.id

(* C19: an open call that reports failure leaves both handles as they      *)
(* were, so a session that was closed is still closed.                      *)
C19_FailedOpenChangesNothing ==
  (last.tool = "open_browser" /\ last.result.kind = "throw") =>
    /\ browser = last.preBrowser
    /\ page = last.prePage

\* the attempts made for the field key, in the order they were made
FillsOf(ops, key) ==
  LET OfKey(o) == o.op = "fill" /\ o.arg[1] = key IN SelectSeq(ops, OfKey)

\* The five strategies in the order the claim gives them: accessible label,
\* placeholder, name attribute, id attribute, manual label lookup
StrategyOrder ==
  <<"getByLabel", "getByPlaceholder", "input[name*=key]", "input[id*=key]", "label:has-text">>

(* C14: for one field, fill tries synonym after synonym in the declared     *)
(* order and, for each synonym, the five strategies in the order label,     *)
(* placeholder, name, id, manual label lookup; after the first attempt that *)
(* succeeds no further attempt is made for the field, so the value is       *)
(* written at most once.                                                    *)
C14_FillOrderStopsAtFirstSuccess ==
  IsFill =>
    \A i \in 1 .. Len(tasks) :
      LET fs == FillsOf(last.ops, tasks[i].key)
          labels == tasks[i].labels
      IN /\ Len(fs) <= 5 * Len(labels)
         /\ \A a \in 1 .. Len(fs) :
              /\ fs[a].arg[2] = labels[((a - 1) \div 5) + 1]
              /\ fs[a].arg[3] = StrategyOrder[((a - 1) % 5) + 1]
              /\ fs[a].arg[4] = last.args.values[tasks[i].param]
              /\ a < Len(fs) => ~fs[a].ok
         /\ Cardinality({a \in 1 .. Len(fs) : fs[a].ok}) <= 1

\* fill has written a field by the name attribute of its second synonym, at
\* the eighth attempt, on a page where the id attribute would have matched too
C14_Witness ==
  /\ IsFill
  /\ \E i \in 1 .. Len(tasks) :
       LET fs == FillsOf(last.ops, tasks[i].key) IN
       /\ Len(fs) = 8
       /\ fs[8].ok
       /\ <<2, 4>> \in last.args.hits[i]

\* the strategies of the text clicks of ops, in the order they were tried
ClickTries(ops) ==
  LET IsTextClick(o) == o.op = "click" IN SelectSeq(ops, IsTextClick)

\* no entry of the list s occurs twice
NoRepeat(s) == \A m, n \in 1 .. Len(s) : m # n => s[m] # s[n]

\* so far the call has made at most five click attempts, at most five fill
\* attempts for any synonym of any field, and no attempt twice
ChainBounded ==
  last # Idle =>
    IF last.tool = "click_element"
    THEN LET tries == ClickTries(last.ops) IN
         /\ Len(tries) <= 5
         /\ NoRepeat([n \in 1 .. Len(tries) |-> tries[n].arg[1]])
    ELSE \A i \in 1 .. Len(tasks) :
           LET fs == FillsOf(last.ops, tasks[i].key) IN
           /\ NoRepeat([n \in 1 .. Len(fs) |-> <<fs[n].arg[2], fs[n].arg[3]>>])
           /\ \A l \in 1 .. Len(tasks[i].labels) :
                Cardinality({n \in 1 .. Len(fs) : fs[n].arg[2] = tasks[i].labels[l]}) <= 5

(* C16: every fallback chain is finite and has no retry: a call of act      *)
(* makes at most 5 click attempts, a call of fill at most 5 attempts for    *)
(* each synonym of each field, no attempt is made twice, and every call of  *)
(* act or fill that has begun returns or throws, given that each of its     *)
(* driver calls completes or times out.                                     *)
C16_ChainsFinite == []ChainBounded /\ (Running ~> Done)

\* act has thrown after five failed click attempts on an open page, or fill
\* has reported a field missing after every attempt for each of its synonyms
C16_Witness ==
  /\ Done
  /\ last.alive
  /\ \/ /\ last.tool = "click_element"
        /\ Len(ClickTries(last.ops)) = 5
        /\ last.result.kind = "throw"
     \/ /\ last.tool = "fill_form_fields"
        /\ \E i \in 1 .. Len(tasks) :
             /\ Len(FillsOf(last.ops, tasks[i].key)) = 5 * Len(tasks[i].labels)
             /\ \E n \in 1 .. Len(last.results) :
                  last.results[n] = [key |-> tasks[i].key, status |-> "missing"]

====
